---- MODULE Spec2Model ----
(***************************************************************************)
(* Disclosure authorization subsystem of the TrustMed web API: insurance   *)
(* allocations (connections), data requests and their review, approved     *)
(* records (grants) and the insurer's read of them, and the audit log.     *)
(*                                                                         *)
(* The store is modelled at the level of the SQL statements the handlers   *)
(* issue: status columns hold the numbers the code writes (0 pending,      *)
(* 1 approved, 2 rejected), tables are partial functions from their key.   *)
(* No handler inserts into approved_records; rows enter through issue,     *)
(* which follows the design document (GrantStore.issue).  Patients,        *)
(* companies, staff and records are fixed master data; patients holds the  *)
(* ids of the rows added to the patients table, vault the sensitive        *)
(* columns of the added patient and of the added record.                   *)
(*                                                                         *)
(* Three collaborators can be switched per specification: the audit store  *)
(* (auditUp), the mail transport (mailUp) and the client that keeps the    *)
(* last response (trace).  While a collaborator is off its variable         *)
(* (audit_logs, outbox, res) stays as it is.                               *)
(*                                                                         *)
(* SpecAlloc runs the allocation registry and the two ways to submit a     *)
(* request from the empty store; Spec runs the request review, the grant   *)
(* store and the insurer's reads from the state in which the allocation    *)
(* of c1 and p1 is approved.  SpecReview, SpecNotify, SpecAudit and        *)
(* SpecAccess start from that state too, each with the collaborators it    *)
(* observes switched on and one administrator at work.                     *)
(*                                                                         *)
(* SpecSubmit runs the submissions with the ids the clock gives; SpecVault *)
(* and SpecRecords run the writers and readers of the sensitive columns    *)
(* over the cipher of the encryption helpers (the block cipher is a stand- *)
(* in permutation with the same padding, chaining and encoding);           *)
(* SpecRoutes runs the routers behind authenticate and checkRole;          *)
(* SpecLogin runs the staff accounts (users holds their rows,              *)
(* passwordChanged the accounts whose owner has changed the password);     *)
(* SpecTrail runs the mutations statement by statement where a handler     *)
(* reads before it writes (ua holds the status update in flight);          *)
(* SpecConnection runs the insurers' decisions on allocations of both      *)
(* companies.                                                              *)
(***************************************************************************)
EXTENDS Integers, Sequences, FiniteSets, TLC

\* ---------------------------------------------------------------- bounds
MaxAlloc == 2
MaxTime == 1
MaxQuota == 1
MaxAudit == 2
MaxMail == 1

\* ------------------------------------------------------------ master data
Companies == {"c1", "c2"}
Patients == {"p1"}
Admins == {"a1", "a2"}
ReqIds == {"REQ1"}
Records == {"rec1"}
NoteValues == {"n1"}

\* ids generatePatientId may return
NewPatientIds == {"p2"}

\* req.userRole
Roles == {"admin", "doctor", "insurance"}

\* records.patient_id
RecordPatient(rec) == "p1"

NULL == "NULL"
AllocIds == 1..MaxAlloc
NoteInputs == NoteValues \cup {""}
StatusInputs == {"pending", "approved", "rejected", "other"}

VARIABLES
    insurance_allocations,  \* id -> [company_id, patient_id, status, notes]
    nextAllocId,            \* AUTO_INCREMENT of insurance_allocations.id
    data_requests,          \* request_id -> [company_id, patient_id, status,
                            \*   response_notes, response_date]; a nullable
                            \*   timestamp is {} (NULL) or {t}
    approved_records,       \* <<request_id, record_id>> -> [approved_by,
                            \*   access_granted_until, access_count, max_access_count]
    audit_logs,             \* sequence of [user_id, action, resource_type, resource_id]
    auditUp,                \* whether an INSERT into audit_logs succeeds
    now,                    \* NOW() of the store
    rv,                     \* per admin: the review handler in flight
    served,                 \* <<company_id, request_id, record_id>> -> times the
                            \*   record was returned to the company (saturating)
    ca,                     \* per admin: the createAllocation call in flight
    patients,               \* patient ids inserted into patients
    mailUp,                 \* whether the mail transport delivers
    outbox,                 \* number of mails delivered (saturating)
    res,                    \* the last response: [op, code, seq]
    trace,                  \* whether the client keeps the last response
    vault,                  \* sensitive column -> [stored, plain, by]: the
                            \*   stored text, the text handed to the writer
                            \*   and who wrote the cell
    shown,                  \* the rows of the last read: [op, row]
    users,                  \* staff id -> [password, role, first_login]: the
                            \*   users row and the staff row of an account
    passwordChanged,        \* staff ids whose changePassword has succeeded
    ua                      \* per admin: the updateAllocationStatus call in
                            \*   flight

vars == <<insurance_allocations, nextAllocId, data_requests, approved_records,
          audit_logs, auditUp, now, rv, served, ca, patients, mailUp, outbox,
          res, trace, vault, shown, users, passwordChanged, ua>>

\* ------------------------------------------------------------- helpers
\* notes || null
OrNull(notes) == IF notes = "" THEN NULL ELSE notes

\* notes || fallback
OrElse(notes, fallback) == IF notes = "" THEN fallback ELSE notes

Put(f, k, v) == [x \in DOMAIN f \cup {k} |-> IF x = k THEN v ELSE f[x]]

Drop(f, ks) == [x \in DOMAIN f \ ks |-> f[x]]

Min(x, y) == IF x <= y THEN x ELSE y

formatStatus(status) ==
    CASE status = 0 -> "pending"
      [] status = 1 -> "approved"
      [] status = 2 -> "rejected"
      [] OTHER -> "unknown"

parseStatus(status) ==
    CASE status = "pending" -> 0
      [] status = "approved" -> 1
      [] status = "rejected" -> 2
      [] OTHER -> 0

\* logAudit over a log that makes room by dropping its oldest event.
logAudit_rotating(userId, action, resourceType, resourceId) ==
    IF auditUp
    THEN audit_logs' = Append(IF Len(audit_logs) < MaxAudit THEN audit_logs
                              ELSE Tail(audit_logs),
             [user_id |-> userId, action |-> action,
              resource_type |-> resourceType, resource_id |-> resourceId])
    ELSE audit_logs' = audit_logs

\* logAudit: one INSERT into audit_logs; a failure of the INSERT is caught
\* and the call returns null.  The INSERT fails while the audit store is
\* down or full.
logAudit(userId, action, resourceType, resourceId) ==
    IF auditUp /\ Len(audit_logs) < MaxAudit
    THEN audit_logs' = Append(audit_logs,
             [user_id |-> userId, action |-> action,
              resource_type |-> resourceType, resource_id |-> resourceId])
    ELSE audit_logs' = audit_logs

\* emailService.send...: the transport delivers or throws; every caller
\* modelled here wraps the call in try/catch.
sendEmail(subject, about) ==
    outbox' = IF mailUp THEN Min(outbox + 1, MaxMail) ELSE outbox

\* res.status(code).json(...), or next(error) answered by errorHandler
\* with err.statusCode (500 for an error that is not an AppError).
Respond(op, code) ==
    res' = IF trace THEN [op |-> op, code |-> code, seq |-> 1 - res.seq] ELSE res

NoResponse == [op |-> "none", code |-> 0, seq |-> 0]

\* rv[a].request is the status of the row the handler read before its UPDATE.
IdleReview == [pc |-> "idle", id |-> "", status |-> 0, notes |-> "",
               request |-> "none"]

IdleCreate == [pc |-> "idle", company_id |-> "", patient_id |-> "", notes |-> ""]

IdleUpdate == [pc |-> "idle", id |-> 0, status |-> 0, notes |-> ""]

ServedCap == MaxQuota + 1

\* sensitiveFields of the patient model and of the record model
PatientFields == {"nic", "address", "allergies"}
RecordFields == {"description"}
Fields == PatientFields \cup RecordFields

\* a NULL column
NoCell == [stored |-> <<>>, plain |-> <<>>, by |-> "none"]

EmptyVault == [f \in Fields |-> NoCell]

NoShown == [op |-> "none", row |-> <<>>]

Init ==
    /\ insurance_allocations = <<>>
    /\ nextAllocId = 1
    /\ data_requests = <<>>
    /\ approved_records = <<>>
    /\ audit_logs = <<>>
    /\ auditUp = FALSE
    /\ now = 0
    /\ rv = [a \in Admins |-> IdleReview]
    /\ served = [k \in Companies \X ReqIds \X Records |-> 0]
    /\ ca = [a \in Admins |-> IdleCreate]
    /\ patients = {}
    /\ mailUp = FALSE
    /\ outbox = 0
    /\ res = NoResponse
    /\ trace = FALSE
    /\ vault = EmptyVault
    /\ shown = NoShown
    /\ users = <<>>
    /\ passwordChanged = {}
    /\ ua = [a \in Admins |-> IdleUpdate]

\* ------------------------------------------------------------ environment
\* The audit store goes down or comes back.
auditOutage ==
    /\ auditUp' = ~auditUp
    /\ UNCHANGED <<insurance_allocations, nextAllocId, data_requests,
                   approved_records, audit_logs, now, rv, served, ca, patients,
                   mailUp, outbox, res, trace, vault, shown,
                   users, passwordChanged, ua>>

\* The mail transport goes down or comes back.
mailOutage ==
    /\ mailUp' = ~mailUp
    /\ UNCHANGED <<insurance_allocations, nextAllocId, data_requests,
                   approved_records, audit_logs, auditUp, now, rv, served, ca,
                   patients, outbox, res, trace, vault, shown,
                   users, passwordChanged, ua>>

\* Time passes.
tick ==
    /\ now < MaxTime
    /\ now' = now + 1
    /\ UNCHANGED <<insurance_allocations, nextAllocId, data_requests,
                   approved_records, audit_logs, auditUp, rv, served, ca,
                   patients, mailUp, outbox, res, trace, vault, shown,
                   users, passwordChanged, ua>>

\* ------------------------------------------------- allocation registry
\* SELECT * FROM insurance_allocations WHERE company_id = ? AND patient_id = ?
existing(c, p) ==
    {i \in DOMAIN insurance_allocations :
        /\ insurance_allocations[i].company_id = c
        /\ insurance_allocations[i].patient_id = p}

\* createAllocation calls that passed their check and have not inserted yet
inserting == {a \in Admins : ca[a].pc = "insert"}

\* admin controller: createInsuranceAllocation, up to the check of the
\* insurance allocation model's createAllocation.  An existing row for the
\* pair makes the model throw an Error, which errorHandler answers with 500.
\* The patient and the company are master data and are found.
createInsuranceAllocation(a, c, p, notes) ==
    /\ ca[a].pc = "idle"
    /\ UNCHANGED <<insurance_allocations, nextAllocId, data_requests,
                   approved_records, audit_logs, auditUp, now, rv, served,
                   patients, mailUp, outbox, trace, vault, shown,
                   users, passwordChanged, ua>>
    /\ IF existing(c, p) # {}
       THEN /\ UNCHANGED ca
            /\ Respond("createInsuranceAllocation", 500)
       ELSE /\ nextAllocId + Cardinality(inserting) <= MaxAlloc
            /\ ca' = [ca EXCEPT ![a] = [pc |-> "insert", company_id |-> c,
                                        patient_id |-> p, notes |-> notes]]
            /\ UNCHANGED res

\* createAllocation from its INSERT on, and the rest of the handler.  The
\* INSERT names no policy_number, so the row's policy_number is NULL and
\* the UNIQUE KEY (company_id, patient_id, policy_number) rejects nothing.
\* The company is mailed, the creation is audited, the handler answers 201.
createAllocation_insert(a) ==
    /\ ca[a].pc = "insert"
    /\ UNCHANGED <<data_requests, approved_records, auditUp, now, rv, served,
                   patients, mailUp, trace, vault, shown,
                   users, passwordChanged, ua>>
    /\ insurance_allocations' = Put(insurance_allocations, nextAllocId,
           [company_id |-> ca[a].company_id, patient_id |-> ca[a].patient_id,
            status |-> 0, notes |-> OrNull(ca[a].notes)])
    /\ nextAllocId' = nextAllocId + 1
    /\ sendEmail("connection", nextAllocId)
    /\ logAudit(a, "create", "insurance_allocation", nextAllocId)
    /\ Respond("createInsuranceAllocation", 201)
    /\ ca' = [ca EXCEPT ![a] = IdleCreate]

\* insurance allocation model: updateAllocationStatus(id, status, notes)
updateAllocationStatus(id, status, notes) ==
    insurance_allocations' = [insurance_allocations EXCEPT
        ![id].status = status,
        ![id].notes = OrElse(notes, insurance_allocations[id].notes)]

\* admin controller: updateInsuranceAllocationStatus.  For an unknown id
\* the model throws an Error, which errorHandler answers with 500.
updateInsuranceAllocationStatus(a, id, status, notes) ==
    /\ UNCHANGED <<nextAllocId, data_requests, approved_records, auditUp, now,
                   rv, served, ca, patients, mailUp, outbox, trace, vault, shown,
                   users, passwordChanged, ua>>
    /\ IF id \notin DOMAIN insurance_allocations
       THEN /\ UNCHANGED <<insurance_allocations, audit_logs>>
            /\ Respond("updateInsuranceAllocationStatus", 500)
       ELSE /\ updateAllocationStatus(id, parseStatus(status), notes)
            /\ logAudit(a, "update_status", "insurance_allocation", id)
            /\ Respond("updateInsuranceAllocationStatus", 200)

\* insurance allocation model: deleteAllocation, called by the admin
\* controller's deleteInsuranceAllocation.
deleteInsuranceAllocation(a, id) ==
    /\ UNCHANGED <<nextAllocId, data_requests, approved_records, auditUp, now,
                   rv, served, ca, patients, mailUp, outbox, trace, vault, shown,
                   users, passwordChanged, ua>>
    /\ IF id \notin DOMAIN insurance_allocations
       THEN /\ UNCHANGED <<insurance_allocations, audit_logs>>
            /\ Respond("deleteInsuranceAllocation", 404)
       ELSE /\ insurance_allocations' = Drop(insurance_allocations, {id})
            /\ logAudit(a, "delete", "insurance_allocation", id)
            /\ Respond("deleteInsuranceAllocation", 200)

\* updateConnectionStatus without the company_id = ? condition of its SELECT.
updateConnectionStatus_anyCompany(c, id, status, notes) ==
    /\ UNCHANGED <<nextAllocId, data_requests, approved_records, auditUp, now,
                   rv, served, ca, patients, mailUp, trace, vault, shown,
                   users, passwordChanged, ua>>
    /\ IF id \notin DOMAIN insurance_allocations
       THEN /\ UNCHANGED <<insurance_allocations, audit_logs, outbox>>
            /\ Respond("updateConnectionStatus", 404)
       ELSE /\ insurance_allocations' = [insurance_allocations EXCEPT
                   ![id].status = IF status = "approved" THEN 1 ELSE 2,
                   ![id].notes = OrNull(notes)]
            /\ logAudit(c, "update", "insurance_allocation", id)
            /\ sendEmail("connection_status", id)
            /\ Respond("updateConnectionStatus", 200)

\* insurance controller: updateConnectionStatus.  The patient is mailed on
\* an approval and the administrators on every decision; one mail of the
\* decision stands for both.
updateConnectionStatus(c, id, status, notes) ==
    /\ UNCHANGED <<nextAllocId, data_requests, approved_records, auditUp, now,
                   rv, served, ca, patients, mailUp, trace, vault, shown,
                   users, passwordChanged, ua>>
    /\ IF ~(id \in DOMAIN insurance_allocations
            /\ insurance_allocations[id].company_id = c)
       THEN /\ UNCHANGED <<insurance_allocations, audit_logs, outbox>>
            /\ Respond("updateConnectionStatus", 404)
       ELSE /\ insurance_allocations' = [insurance_allocations EXCEPT
                   ![id].status = IF status = "approved" THEN 1 ELSE 2,
                   ![id].notes = OrNull(notes)]
            /\ logAudit(c, "update", "insurance_allocation", id)
            /\ sendEmail("connection_status", id)
            /\ Respond("updateConnectionStatus", 200)

\* SELECT ... FROM insurance_allocations
\*   WHERE patient_id = ? AND company_id = ? AND status = 1
connection(p, c) ==
    {i \in DOMAIN insurance_allocations :
        /\ insurance_allocations[i].patient_id = p
        /\ insurance_allocations[i].company_id = c
        /\ insurance_allocations[i].status = 1}

\* ------------------------------------------------------ patient registry
\* patient controller: createPatient.  The controller takes encrypt from
\* the encryption service, which exports encryptPayload and decryptPayload
\* only: the call of encrypt throws before the INSERT and the catch block
\* answers 500.
createPatient(role, id) ==
    /\ UNCHANGED <<insurance_allocations, nextAllocId, data_requests,
                   approved_records, audit_logs, auditUp, now, rv, served, ca,
                   patients, mailUp, outbox, trace, vault, shown,
                   users, passwordChanged, ua>>
    /\ Respond("createPatient",
               IF role # "admin" /\ role # "doctor" THEN 403 ELSE 500)

\* ---------------------------------------------------- data request ledger
\* data request model: createDataRequest.  The id is derived from the clock
\* (REQ + last six digits of Date.now()), so any id may come out; the
\* INSERT fails on a primary key already stored.
dataRequestModel_createDataRequest(request_id, company_id, patient_id) ==
    /\ request_id \notin DOMAIN data_requests
    /\ data_requests' = Put(data_requests, request_id,
           [company_id |-> company_id, patient_id |-> patient_id, status |-> 0,
            response_notes |-> NULL, response_date |-> {}])

\* createDataRequest over an audit call that raises when its INSERT fails:
\* the request is stored and the handler answers 500.
insurance_createDataRequest_auditRaises(c, p, id) ==
    /\ UNCHANGED <<insurance_allocations, nextAllocId, approved_records,
                   auditUp, now, rv, served, ca, patients, mailUp, trace, vault, shown,
                   users, passwordChanged, ua>>
    /\ IF connection(p, c) = {} \/ id \in DOMAIN data_requests
       THEN /\ UNCHANGED <<data_requests, audit_logs, outbox>>
            /\ Respond("createDataRequest",
                       IF connection(p, c) = {} THEN 403 ELSE 409)
       ELSE /\ dataRequestModel_createDataRequest(id, c, p)
            /\ logAudit(c, "create", "data_request", id)
            /\ sendEmail("data_request", id)
            /\ Respond("createDataRequest",
                       IF audit_logs' # audit_logs THEN 201 ELSE 500)

\* insurance controller: createDataRequest.  No approved connection is
\* answered 403, a duplicate key 409; the administrators are mailed.
insurance_createDataRequest(c, p, id) ==
    /\ UNCHANGED <<insurance_allocations, nextAllocId, approved_records,
                   auditUp, now, rv, served, ca, patients, mailUp, trace, vault, shown,
                   users, passwordChanged, ua>>
    /\ IF connection(p, c) = {} \/ id \in DOMAIN data_requests
       THEN /\ UNCHANGED <<data_requests, audit_logs, outbox>>
            /\ Respond("createDataRequest",
                       IF connection(p, c) = {} THEN 403 ELSE 409)
       ELSE /\ dataRequestModel_createDataRequest(id, c, p)
            /\ logAudit(c, "create", "data_request", id)
            /\ sendEmail("data_request", id)
            /\ Respond("createDataRequest", 201)

\* data request controller: createDataRequest (company_id and patient_id
\* are taken from the body)
dataRequest_createDataRequest(u, c, p, id) ==
    /\ UNCHANGED <<insurance_allocations, nextAllocId, approved_records,
                   auditUp, now, rv, served, ca, patients, mailUp, outbox, trace, vault, shown,
                   users, passwordChanged, ua>>
    /\ IF id \in DOMAIN data_requests
       THEN /\ UNCHANGED <<data_requests, audit_logs>>
            /\ Respond("createDataRequest", 409)
       ELSE /\ dataRequestModel_createDataRequest(id, c, p)
            /\ logAudit(u, "create", "data_request", id)
            /\ Respond("createDataRequest", 201)

\* the handler that reviews with this status
reviewOp(status) == IF status = 1 THEN "approveDataRequest" ELSE "rejectDataRequest"

\* data request model: updateDataRequestStatus, first statement: the read
\* of the current row; an unknown id makes it throw an Error, which
\* errorHandler answers with 500.
updateDataRequestStatus_read(a, id, status, notes) ==
    /\ rv[a].pc = "idle"
    /\ UNCHANGED <<insurance_allocations, nextAllocId, data_requests,
                   approved_records, audit_logs, auditUp, now, served, ca,
                   patients, mailUp, outbox, trace, vault, shown,
                   users, passwordChanged, ua>>
    /\ IF id \notin DOMAIN data_requests
       THEN /\ UNCHANGED rv
            /\ Respond(reviewOp(status), 500)
       ELSE /\ rv' = [rv EXCEPT ![a] = [pc |-> "update", id |-> id,
                       status |-> status, notes |-> notes,
                       request |-> formatStatus(data_requests[id].status)]]
            /\ UNCHANGED res

\* a review refused before the model is called: next(new AppError(..., 400))
refuseReview(a, status) ==
    /\ rv[a].pc = "idle"
    /\ UNCHANGED <<insurance_allocations, nextAllocId, data_requests,
                   approved_records, audit_logs, auditUp, now, rv, served, ca,
                   patients, mailUp, outbox, trace, vault, shown,
                   users, passwordChanged, ua>>
    /\ Respond(reviewOp(status), 400)

\* admin controller: approveDataRequest
approveDataRequest(a, id, notes) ==
    updateDataRequestStatus_read(a, id, parseStatus("approved"), notes)

\* rejectDataRequest without its check of the notes.
rejectDataRequest_anyNotes(a, id, notes) ==
    updateDataRequestStatus_read(a, id, parseStatus("rejected"), notes)

\* admin controller: rejectDataRequest
rejectDataRequest(a, id, notes) ==
    IF notes = ""
    THEN refuseReview(a, parseStatus("rejected"))
    ELSE updateDataRequestStatus_read(a, id, parseStatus("rejected"), notes)

\* data request controller: approveDataRequest
dataRequest_approveDataRequest(a, id, notes) ==
    updateDataRequestStatus_read(a, id, parseStatus("approved"), notes)

\* data request controller: rejectDataRequest
dataRequest_rejectDataRequest(a, id, notes) ==
    IF notes = ""
    THEN refuseReview(a, parseStatus("rejected"))
    ELSE updateDataRequestStatus_read(a, id, parseStatus("rejected"), notes)

\* updateDataRequestStatus_write without the try/catch around the mail:
\* a failed mail leaves the UPDATE in place and lets the error reach
\* errorHandler, before the audit.
updateDataRequestStatus_write_uncaught(a) ==
    /\ rv[a].pc = "update"
    /\ UNCHANGED <<insurance_allocations, nextAllocId, approved_records,
                   auditUp, now, served, ca, patients, mailUp, trace, vault, shown,
                   users, passwordChanged, ua>>
    /\ data_requests' =
          IF rv[a].id \in DOMAIN data_requests
          THEN [data_requests EXCEPT
                   ![rv[a].id].status = rv[a].status,
                   ![rv[a].id].response_notes = OrNull(rv[a].notes),
                   ![rv[a].id].response_date = {now}]
          ELSE data_requests
    /\ sendEmail(formatStatus(rv[a].status), rv[a].id)
    /\ IF mailUp
       THEN /\ logAudit(a, IF rv[a].status = 1 THEN "approve" ELSE "reject",
                        "data_request", rv[a].id)
            /\ Respond(reviewOp(rv[a].status), 200)
       ELSE /\ UNCHANGED audit_logs
            /\ Respond(reviewOp(rv[a].status), 500)
    /\ rv' = [rv EXCEPT ![a] = IdleReview]

\* data request model: updateDataRequestStatus from its UPDATE on, and the
\* rest of the handler: the row is read again, the company is mailed, the
\* review is audited and the handler answers 200.
updateDataRequestStatus_write(a) ==
    /\ rv[a].pc = "update"
    /\ UNCHANGED <<insurance_allocations, nextAllocId, approved_records,
                   auditUp, now, served, ca, patients, mailUp, trace, vault, shown,
                   users, passwordChanged, ua>>
    /\ data_requests' =
          IF rv[a].id \in DOMAIN data_requests
          THEN [data_requests EXCEPT
                   ![rv[a].id].status = rv[a].status,
                   ![rv[a].id].response_notes = OrNull(rv[a].notes),
                   ![rv[a].id].response_date = {now}]
          ELSE data_requests
    /\ sendEmail(formatStatus(rv[a].status), rv[a].id)
    /\ logAudit(a, IF rv[a].status = 1 THEN "approve" ELSE "reject",
                "data_request", rv[a].id)
    /\ Respond(reviewOp(rv[a].status), 200)
    /\ rv' = [rv EXCEPT ![a] = IdleReview]

\* ------------------------------------------------------------ grant store
\* GrantStore.issue: one row of approved_records per (request, record),
\* only for an approved request; access_count starts at 0.
issue(a, r, rec, ttl, maxAccess) ==
    /\ UNCHANGED <<insurance_allocations, nextAllocId, data_requests,
                   audit_logs, auditUp, now, rv, served, ca, patients, mailUp,
                   outbox, res, trace, vault, shown, users, passwordChanged, ua>>
    /\ IF /\ r \in DOMAIN data_requests
          /\ data_requests[r].status = 1
          /\ <<r, rec>> \notin DOMAIN approved_records
       THEN approved_records' = Put(approved_records, <<r, rec>>,
                [approved_by |-> a,
                 access_granted_until |-> IF ttl = 0 THEN {} ELSE {now + ttl},
                 access_count |-> 0,
                 max_access_count |-> maxAccess])
       ELSE UNCHANGED approved_records

\* r.record_id IN (SELECT record_id FROM approved_records WHERE request_id = ?)
\* AND r.patient_id = ?
approvedRecordsOf(r, patient_id) ==
    {rec \in Records : /\ RecordPatient(rec) = patient_id
                       /\ <<r, rec>> \in DOMAIN approved_records}

\* getApprovedRecords without the company_id = ? condition of its first query.
getApprovedRecords_anyCompany(c, r) ==
    /\ UNCHANGED <<insurance_allocations, nextAllocId, data_requests,
                   approved_records, auditUp, now, rv, ca, patients, mailUp,
                   outbox, trace, vault, shown, users, passwordChanged, ua>>
    /\ IF ~(/\ r \in DOMAIN data_requests
            /\ data_requests[r].status = 1)
       THEN /\ UNCHANGED <<audit_logs, served>>
            /\ Respond("getApprovedRecords", 404)
       ELSE LET records == approvedRecordsOf(r, data_requests[r].patient_id) IN
            /\ logAudit(c, "view", "approved_records", r)
            /\ served' = [k \in DOMAIN served |->
                             IF k[1] = c /\ k[2] = r /\ k[3] \in records
                             THEN Min(served[k] + 1, ServedCap)
                             ELSE served[k]]
            /\ Respond("getApprovedRecords", 200)

\* getApprovedRecords that counts every read in access_count, unconditionally.
getApprovedRecords_counting(c, r) ==
    /\ UNCHANGED <<insurance_allocations, nextAllocId, data_requests,
                   auditUp, now, rv, ca, patients, mailUp, outbox, trace, vault, shown,
                   users, passwordChanged, ua>>
    /\ IF ~(/\ r \in DOMAIN data_requests
            /\ data_requests[r].company_id = c
            /\ data_requests[r].status = 1)
       THEN /\ UNCHANGED <<audit_logs, served, approved_records>>
            /\ Respond("getApprovedRecords", 404)
       ELSE LET records == approvedRecordsOf(r, data_requests[r].patient_id) IN
            /\ logAudit(c, "view", "approved_records", r)
            /\ approved_records' = [g \in DOMAIN approved_records |->
                  IF g[1] = r /\ g[2] \in records
                  THEN [approved_records[g] EXCEPT
                          !.access_count = Min(@ + 1, ServedCap)]
                  ELSE approved_records[g]]
            /\ served' = [k \in DOMAIN served |->
                             IF k[1] = c /\ k[2] = r /\ k[3] \in records
                             THEN Min(served[k] + 1, ServedCap)
                             ELSE served[k]]
            /\ Respond("getApprovedRecords", 200)

\* insurance controller: getApprovedRecords.  A request that is missing,
\* another company's or not approved is answered 404 before any audit.
getApprovedRecords(c, r) ==
    /\ UNCHANGED <<insurance_allocations, nextAllocId, data_requests,
                   approved_records, auditUp, now, rv, ca, patients, mailUp,
                   outbox, trace, vault, shown, users, passwordChanged, ua>>
    /\ IF ~(/\ r \in DOMAIN data_requests
            /\ data_requests[r].company_id = c
            /\ data_requests[r].status = 1)
       THEN /\ UNCHANGED <<audit_logs, served>>
            /\ Respond("getApprovedRecords", 404)
       ELSE LET records == approvedRecordsOf(r, data_requests[r].patient_id) IN
            /\ logAudit(c, "view", "approved_records", r)
            /\ served' = [k \in DOMAIN served |->
                             IF k[1] = c /\ k[2] = r /\ k[3] \in records
                             THEN Min(served[k] + 1, ServedCap)
                             ELSE served[k]]
            /\ Respond("getApprovedRecords", 200)

\* insurance controller: getDataRequestById.  A missing request is
\* answered 404 and another company's 403, both before any audit.
getDataRequestById(c, id) ==
    /\ UNCHANGED <<insurance_allocations, nextAllocId, data_requests,
                   approved_records, auditUp, now, rv, served, ca, patients,
                   mailUp, outbox, trace, vault, shown,
                   users, passwordChanged, ua>>
    /\ IF id \in DOMAIN data_requests /\ data_requests[id].company_id = c
       THEN /\ logAudit(c, "view", "data_request", id)
            /\ Respond("getDataRequestById", 200)
       ELSE /\ UNCHANGED audit_logs
            /\ Respond("getDataRequestById",
                       IF id \in DOMAIN data_requests THEN 403 ELSE 404)

\* --------------------------------------------------------- specifications
NextAlloc ==
    \/ \E a \in Admins, c \in Companies, p \in Patients, n \in NoteInputs :
          createInsuranceAllocation(a, c, p, n)
    \/ \E a \in Admins : createAllocation_insert(a)
    \/ \E a \in Admins, id \in AllocIds, s \in StatusInputs, n \in NoteInputs :
          updateInsuranceAllocationStatus(a, id, s, n)
    \/ \E a \in Admins, id \in AllocIds : deleteInsuranceAllocation(a, id)
    \/ \E c \in Companies, id \in AllocIds, s \in StatusInputs, n \in NoteInputs :
          updateConnectionStatus(c, id, s, n)
    \/ \E c \in Companies, p \in Patients, id \in ReqIds :
          insurance_createDataRequest(c, p, id)
    \/ \E u \in Admins \cup Companies, c \in Companies, p \in Patients, id \in ReqIds :
          dataRequest_createDataRequest(u, c, p, id)

SpecAlloc == Init /\ [][NextAlloc]_vars

\* The state after an administrator created the allocation of c1 and p1 and
\* approved it, with the audit store down.
InitApproved ==
    /\ insurance_allocations =
          Put(<<>>, 1, [company_id |-> "c1", patient_id |-> "p1", status |-> 1,
                        notes |-> NULL])
    /\ nextAllocId = 2
    /\ data_requests = <<>>
    /\ approved_records = <<>>
    /\ audit_logs = <<>>
    /\ auditUp = FALSE
    /\ now = 0
    /\ rv = [a \in Admins |-> IdleReview]
    /\ served = [k \in Companies \X ReqIds \X Records |-> 0]
    /\ ca = [a \in Admins |-> IdleCreate]
    /\ patients = {}
    /\ mailUp = FALSE
    /\ outbox = 0
    /\ res = NoResponse
    /\ trace = FALSE
    /\ vault = EmptyVault
    /\ shown = NoShown
    /\ users = <<>>
    /\ passwordChanged = {}
    /\ ua = [a \in Admins |-> IdleUpdate]

Next ==
    \/ tick
    \/ \E c \in Companies, p \in Patients, id \in ReqIds :
          insurance_createDataRequest(c, p, id)
    \/ \E a \in Admins, id \in ReqIds, n \in NoteInputs : approveDataRequest(a, id, n)
    \/ \E a \in Admins, id \in ReqIds, n \in NoteInputs : rejectDataRequest(a, id, n)
    \/ \E a \in Admins, id \in ReqIds, n \in NoteInputs :
          dataRequest_approveDataRequest(a, id, n)
    \/ \E a \in Admins, id \in ReqIds, n \in NoteInputs :
          dataRequest_rejectDataRequest(a, id, n)
    \/ \E a \in Admins : updateDataRequestStatus_write(a)
    \/ \E a \in Admins, r \in ReqIds, rec \in Records,
          ttl \in 0..(MaxTime - now), m \in 1..MaxQuota : issue(a, r, rec, ttl, m)
    \/ \E c \in Companies, r \in ReqIds : getApprovedRecords(c, r)
    \/ \E c \in Companies, id \in ReqIds : getDataRequestById(c, id)

Spec == InitApproved /\ [][Next]_vars

\* The approved allocation of c1 and p1.
Approved1 ==
    Put(<<>>, 1, [company_id |-> "c1", patient_id |-> "p1", status |-> 1,
                  notes |-> NULL])

\* The store of InitApproved with the collaborators switched as given.
Start(audit, mail, traced) ==
    /\ insurance_allocations = Approved1
    /\ nextAllocId = 2
    /\ data_requests = <<>>
    /\ approved_records = <<>>
    /\ audit_logs = <<>>
    /\ auditUp = audit
    /\ now = 0
    /\ rv = [a \in Admins |-> IdleReview]
    /\ served = [k \in Companies \X ReqIds \X Records |-> 0]
    /\ ca = [a \in Admins |-> IdleCreate]
    /\ patients = {}
    /\ mailUp = mail
    /\ outbox = 0
    /\ res = NoResponse
    /\ trace = traced
    /\ vault = EmptyVault
    /\ shown = NoShown
    /\ users = <<>>
    /\ passwordChanged = {}
    /\ ua = [a \in Admins |-> IdleUpdate]

\* the administrator at work in the specifications below
OnDuty == {"a1"}

\* Review of requests with the audit store and the mail transport going up
\* and down, responses traced.
InitReview == Start(TRUE, TRUE, TRUE)

NextReview ==
    \/ auditOutage
    \/ mailOutage
    \/ \E c \in Companies, p \in Patients, id \in ReqIds :
          insurance_createDataRequest(c, p, id)
    \/ \E a \in OnDuty, id \in ReqIds, n \in NoteInputs : approveDataRequest(a, id, n)
    \/ \E a \in OnDuty, id \in ReqIds, n \in NoteInputs : rejectDataRequest(a, id, n)
    \/ \E a \in OnDuty, id \in ReqIds, n \in NoteInputs :
          dataRequest_approveDataRequest(a, id, n)
    \/ \E a \in OnDuty, id \in ReqIds, n \in NoteInputs :
          dataRequest_rejectDataRequest(a, id, n)
    \/ \E a \in OnDuty : updateDataRequestStatus_write(a)

SpecReview == InitReview /\ [][NextReview]_vars

\* Proposals, decisions and reviews with the mail transport going up and
\* down, responses traced, audit store down.
InitNotify == Start(FALSE, TRUE, TRUE)

NextNotify ==
    \/ mailOutage
    \/ \E a \in OnDuty, c \in Companies, p \in Patients, n \in NoteInputs :
          createInsuranceAllocation(a, c, p, n)
    \/ \E a \in OnDuty : createAllocation_insert(a)
    \/ \E c \in Companies, id \in AllocIds, s \in StatusInputs, n \in NoteInputs :
          updateConnectionStatus(c, id, s, n)
    \/ \E c \in Companies, p \in Patients, id \in ReqIds :
          insurance_createDataRequest(c, p, id)
    \/ \E a \in OnDuty, id \in ReqIds, n \in NoteInputs : approveDataRequest(a, id, n)
    \/ \E a \in OnDuty, id \in ReqIds, n \in NoteInputs : rejectDataRequest(a, id, n)
    \/ \E a \in OnDuty : updateDataRequestStatus_write(a)

SpecNotify == InitNotify /\ [][NextNotify]_vars

\* Handlers of the registry, the ledger, the review and the reads, each
\* writing the audit log, with the audit store going up and down.
InitAudit == Start(TRUE, FALSE, FALSE)

NextAudit ==
    \/ auditOutage
    \/ \E a \in OnDuty, id \in AllocIds : deleteInsuranceAllocation(a, id)
    \/ \E c \in Companies, id \in AllocIds, s \in StatusInputs, n \in NoteInputs :
          updateConnectionStatus(c, id, s, n)
    \/ \E c \in Companies, p \in Patients, id \in ReqIds :
          insurance_createDataRequest(c, p, id)
    \/ \E a \in OnDuty, id \in ReqIds, n \in NoteInputs : approveDataRequest(a, id, n)
    \/ \E a \in OnDuty, id \in ReqIds, n \in NoteInputs : rejectDataRequest(a, id, n)
    \/ \E a \in OnDuty : updateDataRequestStatus_write(a)
    \/ \E c \in Companies, r \in ReqIds : getApprovedRecords(c, r)
    \/ \E c \in Companies, id \in ReqIds : getDataRequestById(c, id)

SpecAudit == InitAudit /\ [][NextAudit]_vars

\* The insurer's calls and the administrator's, audit store up, responses
\* traced.
InitAccess == Start(TRUE, FALSE, TRUE)

NextAccess ==
    \/ \E role \in Roles, id \in NewPatientIds : createPatient(role, id)
    \/ \E a \in OnDuty, id \in AllocIds, s \in StatusInputs, n \in NoteInputs :
          updateInsuranceAllocationStatus(a, id, s, n)
    \/ \E c \in Companies, p \in Patients, id \in ReqIds :
          insurance_createDataRequest(c, p, id)
    \/ \E a \in OnDuty, id \in ReqIds, n \in NoteInputs : approveDataRequest(a, id, n)
    \/ \E a \in OnDuty : updateDataRequestStatus_write(a)
    \/ \E c \in Companies, r \in ReqIds : getApprovedRecords(c, r)
    \/ \E c \in Companies, id \in ReqIds : getDataRequestById(c, id)

SpecAccess == InitAccess /\ [][NextAccess]_vars

\* ------------------------------------------------------------ request ids
\* the ids that fit the request_id pattern: REQ and six digits
IdSpan == 1000000

\* `REQ${Date.now().toString().slice(-6)}`: the last six digits of the
\* millisecond clock
requestIdAt(ms) == "REQ" \o ToString(ms % IdSpan)

\* Submissions through both controllers with the id the model derives from
\* the clock (now counts milliseconds here), responses traced.
InitSubmit == Start(TRUE, FALSE, TRUE)

NextSubmit ==
    \/ tick
    \/ \E c \in Companies, p \in Patients :
          insurance_createDataRequest(c, p, requestIdAt(now))
    \/ \E u \in OnDuty, c \in Companies, p \in Patients :
          dataRequest_createDataRequest(u, c, p, requestIdAt(now))
    \/ \E c \in Companies, id \in {requestIdAt(t) : t \in 0..MaxTime} :
          getDataRequestById(c, id)

SpecSubmit == InitSubmit /\ [][NextSubmit]_vars


\* ----------------------------------------------------------------- cipher
\* A text is the sequence of its characters, a buffer a sequence of bytes.
\* The characters with the codes 32..126, in the order of their codes
\* (the character 96 is written by its name).
Ascii ==
    <<" ", "!", "\"", "#", "$", "%", "&", "'", "(", ")", "*", "+",
      ",", "-", ".", "/", "0", "1", "2", "3", "4", "5", "6", "7",
      "8", "9", ":", ";", "<", "=", ">", "?", "@", "A", "B", "C",
      "D", "E", "F", "G", "H", "I", "J", "K", "L", "M", "N", "O",
      "P", "Q", "R", "S", "T", "U", "V", "W", "X", "Y", "Z", "[",
      "\\", "]", "^", "_", "grave", "a", "b", "c", "d", "e", "f", "g",
      "h", "i", "j", "k", "l", "m", "n", "o", "p", "q", "r", "s",
      "t", "u", "v", "w", "x", "y", "z", "{", "|", "}", "~">>

Printable == {Ascii[i] : i \in 1..Len(Ascii)}

charCode == [c \in Printable |-> 31 + CHOOSE i \in 1..Len(Ascii) : Ascii[i] = c]

\* what a byte outside 32..126 decodes to
Replacement == "\\uFFFD"

\* Buffer.from(text, 'utf8') and buffer.toString('utf8')
utf8(text) == [i \in 1..Len(text) |-> charCode[text[i]]]

toUtf8(bytes) ==
    [i \in 1..Len(bytes) |->
        IF bytes[i] \in 32..126 THEN Ascii[bytes[i] - 31] ELSE Replacement]

HexDigits == <<"0", "1", "2", "3", "4", "5", "6", "7", "8", "9", "a", "b", "c", "d", "e", "f">>

hexValue ==
    [c \in {HexDigits[i] : i \in 1..16} \cup {"A", "B", "C", "D", "E", "F"} |->
        IF c \in {"A", "B", "C", "D", "E", "F"}
        THEN charCode[c] - 55
        ELSE (CHOOSE i \in 1..16 : HexDigits[i] = c) - 1]

\* /^[0-9a-f]+$/i
isHex(text) ==
    /\ text # <<>>
    /\ \A i \in 1..Len(text) : text[i] \in DOMAIN hexValue

\* buffer.toString('hex')
toHex(bytes) ==
    [i \in 1..(2 * Len(bytes)) |->
        IF i % 2 = 1
        THEN HexDigits[(bytes[(i + 1) \div 2] \div 16) + 1]
        ELSE HexDigits[(bytes[i \div 2] % 16) + 1]]

\* Buffer.from(text, 'hex'): whole bytes only
fromHex(text) ==
    [i \in 1..(Len(text) \div 2) |->
        16 * hexValue[text[2 * i - 1]] + hexValue[text[2 * i]]]

RECURSIVE xor(_, _)
xor(a, b) ==
    IF a = 0 THEN b
    ELSE IF b = 0 THEN a
    ELSE ((a + b) % 2) + 2 * xor(a \div 2, b \div 2)

\* aes-256-cbc works on blocks of 16 bytes
BlockSize == 16

\* process.env.ENCRYPTION_DISABLED === 'true', ENCRYPTION_IV unset
ENCRYPTION_DISABLED == FALSE

iv == utf8(<<"y", "o", "u", "r", "_", "1", "6", "_", "c", "h", "a", "r", "_", "i", "v", "_">>)

RECURSIVE sum(_)
sum(bytes) == IF bytes = <<>> THEN 0 ELSE Head(bytes) + sum(Tail(bytes))

\* The block permutation of AES under the key and its inverse, stood in
\* for by a permutation of the blocks in which, both ways, every byte of
\* the result depends on every byte of the block: the sum of the block is
\* added to each byte and the bytes are substituted.  All the code relies
\* on is that the cipher permutes the blocks and the decipher undoes it.
aes(block) ==
    LET s == sum(block)
    IN  [i \in 1..BlockSize |-> (167 * (block[i] + s) + 13) % 256]

aesInverse(block) ==
    LET mixed == [i \in 1..BlockSize |-> (23 * (block[i] + 243)) % 256]
        s == (241 * sum(mixed)) % 256
    IN  [i \in 1..BlockSize |-> (mixed[i] + 256 - s) % 256]

xorBlock(a, b) == [i \in 1..BlockSize |-> xor(a[i], b[i])]

\* PKCS#7: n bytes of value n bring the buffer to whole blocks
pad(bytes) ==
    LET n == BlockSize - (Len(bytes) % BlockSize)
    IN  bytes \o [i \in 1..n |-> n]

padded(bytes) ==
    /\ Len(bytes) > 0
    /\ Len(bytes) % BlockSize = 0
    /\ LET n == bytes[Len(bytes)]
       IN  /\ n \in 1..BlockSize
           /\ \A i \in (Len(bytes) - n + 1)..Len(bytes) : bytes[i] = n

unpad(bytes) == SubSeq(bytes, 1, Len(bytes) - bytes[Len(bytes)])

\* cipher.update + cipher.final over whole blocks, chained from prev
RECURSIVE cbcEncrypt(_, _)
cbcEncrypt(bytes, prev) ==
    IF bytes = <<>> THEN <<>>
    ELSE LET c == aes(xorBlock(SubSeq(bytes, 1, BlockSize), prev))
         IN  c \o cbcEncrypt(SubSeq(bytes, BlockSize + 1, Len(bytes)), c)

RECURSIVE cbcDecrypt(_, _)
cbcDecrypt(bytes, prev) ==
    IF Len(bytes) < BlockSize THEN <<>>
    ELSE LET c == SubSeq(bytes, 1, BlockSize)
         IN  xorBlock(aesInverse(c), prev)
                \o cbcDecrypt(SubSeq(bytes, BlockSize + 1, Len(bytes)), c)

\* what decrypt returns when the decipher throws
EncryptedContent == <<"[", "E", "n", "c", "r", "y", "p", "t", "e", "d", " ", "c", "o", "n", "t", "e", "n", "t", "]">>

\* encrypt: a falsy text is returned as it is; the catch block is not
\* reached for a text that is a string
encrypt(text) ==
    IF text = <<>> \/ ENCRYPTION_DISABLED THEN text
    ELSE toHex(cbcEncrypt(pad(utf8(text)), iv))

\* decrypt that hands back the padded buffer.
decrypt_padded(encryptedText) ==
    IF encryptedText = <<>> \/ ENCRYPTION_DISABLED THEN encryptedText
    ELSE IF ~isHex(encryptedText) THEN encryptedText
    ELSE toUtf8(cbcDecrypt(fromHex(encryptedText), iv))

\* decrypt: a falsy text and a text that is not all hex digits are
\* returned as they are; decipher.final throws on a buffer that is not
\* whole blocks or not padded, and the catch blocks return the sentinel
decrypt(encryptedText) ==
    IF encryptedText = <<>> \/ ENCRYPTION_DISABLED THEN encryptedText
    ELSE IF ~isHex(encryptedText) THEN encryptedText
    ELSE LET bytes == fromHex(encryptedText)
             clear == cbcDecrypt(bytes, iv)
         IN  IF Len(bytes) % BlockSize = 0 /\ padded(clear)
             THEN toUtf8(unpad(clear))
             ELSE EncryptedContent

\* isLikelyEncrypted: /^[0-9a-f]{32,}$/i
isLikelyEncrypted(text) == isHex(text) /\ Len(text) >= 2 * BlockSize

\* ------------------------------------------------------ sensitive columns
\* req.body values: a NIC of the old format and one of the twelve-digit
\* format, an address shorter than a block and one that fills a block, a
\* list of allergies and a description longer than a block
Nics == {<<"8", "4", "5", "6", "7", "8", "1", "2", "3", "V">>,
         <<"1", "9", "9", "0", "1", "2", "3", "4", "5", "6", "7", "8">>}

Addresses == {<<"1", "2", "3", " ", "M", "a", "i", "n", " ", "S", "t">>,
              <<"N", "o", " ", "5", ",", " ", "G", "a", "l", "l", "e", " ", "R", "o", "a", "d">>}

Allergies == {<<>>,
              <<"P", "e", "n", "i", "c", "i", "l", "l", "i", "n", ",", " ", "s", "u", "l", "f", "a", " ", "d", "r", "u", "g", "s">>}

Descriptions == {<<"F", "e", "v", "e", "r">>,
                 <<"C", "h", "e", "s", "t", " ", "p", "a", "i", "n", ",", " ", "t", "w", "o", " ", "d", "a", "y", "s">>}

ValuesOf(field) ==
    CASE field = "nic" -> Nics
      [] field = "address" -> Addresses
      [] field = "allergies" -> Allergies
      [] OTHER -> Descriptions

\* the body of a create: every sensitive field of the patient
PatientInputs == [nic : Nics, address : Addresses, allergies : Allergies]

\* the body of an update: one sensitive field
UpdateInputs ==
    UNION {{[x \in {f} |-> v] : v \in ValuesOf(f) \ {<<>>}} : f \in PatientFields}

NewRecordIds == {"rec2"}
Doctors == {"d1"}

\* a cell as the patient model and the record model write it:
\* if (data[field]) data[field] = encrypt(data[field])
written(text) == [stored |-> encrypt(text), plain |-> text, by |-> "write"]

\* a cell written as it came
raw(text, by) == [stored |-> text, plain |-> text, by |-> by]

hasRecord == vault["description"].by # "none"

\* patient model: getPatientById decrypts every sensitive field that is
\* not empty
patientModel_getPatientById(v) ==
    [f \in PatientFields |->
        IF v[f].stored # <<>> THEN decrypt(v[f].stored) ELSE v[f].stored]

\* patient model: getPatientHistory decrypts every description that is not
\* empty
patientModel_getPatientHistory(v) ==
    [f \in RecordFields |->
        IF v[f].stored # <<>> THEN decrypt(v[f].stored) ELSE v[f].stored]

\* record model: getAllRecords decrypts a description that isLikelyEncrypted
recordModel_getAllRecords(v) ==
    [f \in RecordFields |->
        IF v[f].stored # <<>> /\ isLikelyEncrypted(v[f].stored)
        THEN decrypt(v[f].stored) ELSE v[f].stored]

\* record model: getRecordById decrypts a description that matches
\* /^[0-9a-f]{32,}$/i
recordModel_getRecordById(v) ==
    [f \in RecordFields |->
        IF v[f].stored # <<>> /\ isHex(v[f].stored)
              /\ Len(v[f].stored) >= 2 * BlockSize
        THEN decrypt(v[f].stored) ELSE v[f].stored]

\* seed script: the sample patients are inserted as plain text
seedPatients(id, row) ==
    /\ id \notin patients
    /\ patients' = patients \cup {id}
    /\ vault' = [f \in Fields |->
                    IF f \in PatientFields THEN raw(row[f], "seed") ELSE vault[f]]
    /\ UNCHANGED <<insurance_allocations, nextAllocId, data_requests,
                   approved_records, auditUp, now, rv, served, ca, mailUp,
                   outbox, trace, users, passwordChanged, ua>>
    /\ UNCHANGED <<audit_logs, res, shown>>

\* admin controller: createPatient.  The model encrypts the sensitive
\* fields, inserts the row and reads it back; a patient_id already stored
\* fails the INSERT.
admin_createPatient(a, id, body) ==
    /\ UNCHANGED <<insurance_allocations, nextAllocId, data_requests,
                   approved_records, auditUp, now, rv, served, ca, mailUp,
                   outbox, trace, users, passwordChanged, ua>>
    /\ IF id \in patients
       THEN /\ UNCHANGED <<patients, vault, audit_logs, shown>>
            /\ Respond("admin_createPatient", 500)
       ELSE /\ patients' = patients \cup {id}
            /\ vault' = [f \in Fields |->
                  IF f \in PatientFields THEN written(body[f]) ELSE vault[f]]
            /\ logAudit(a, "create", "patient", id)
            /\ shown' = [op |-> "admin_createPatient",
                         row |-> patientModel_getPatientById(vault')]
            /\ Respond("admin_createPatient", 201)

\* admin controller: updatePatient.  The model throws for an unknown
\* patient, encrypts the sensitive fields of the body, updates the row and
\* reads it back.
admin_updatePatient(a, id, body) ==
    /\ UNCHANGED <<insurance_allocations, nextAllocId, data_requests,
                   approved_records, auditUp, now, rv, served, ca, mailUp,
                   outbox, trace, users, passwordChanged, ua>>
    /\ UNCHANGED patients
    /\ IF id \notin patients
       THEN /\ UNCHANGED <<vault, audit_logs, shown>>
            /\ Respond("admin_updatePatient", 500)
       ELSE /\ vault' = [f \in Fields |->
                  IF f \in DOMAIN body THEN written(body[f]) ELSE vault[f]]
            /\ logAudit(a, "update", "patient", id)
            /\ shown' = [op |-> "admin_updatePatient",
                         row |-> patientModel_getPatientById(vault')]
            /\ Respond("admin_updatePatient", 200)

\* patient controller: updatePatient.  A body with allergies or address
\* calls encrypt, which the controller takes from the encryption service
\* (it exports encryptPayload and decryptPayload only): the call throws
\* and the handler answers 500.  Any other body runs the UPDATE, nic as
\* it came, then the call of auditService.logAction throws (the audit
\* service exports logAudit and getAuditLogs only) and the handler
\* answers 500.
patient_updatePatient(role, id, body) ==
    /\ UNCHANGED <<insurance_allocations, nextAllocId, data_requests,
                   approved_records, auditUp, now, rv, served, ca, mailUp,
                   outbox, trace, users, passwordChanged, ua>>
    /\ UNCHANGED <<patients, audit_logs, shown>>
    /\ IF role # "admin" /\ role # "doctor"
       THEN /\ UNCHANGED vault
            /\ Respond("updatePatient", 403)
       ELSE IF id \notin patients
       THEN /\ UNCHANGED vault
            /\ Respond("updatePatient", 404)
       ELSE IF "allergies" \in DOMAIN body \/ "address" \in DOMAIN body
       THEN /\ UNCHANGED vault
            /\ Respond("updatePatient", 500)
       ELSE /\ vault' = [f \in Fields |->
                  IF f \in DOMAIN body THEN raw(body[f], "write") ELSE vault[f]]
            /\ Respond("updatePatient", 500)

\* admin controller: createRecord.  The model encrypts the description,
\* inserts the row and reads it back; a record_id already stored fails the
\* INSERT.
admin_createRecord(a, id, description) ==
    /\ UNCHANGED <<insurance_allocations, nextAllocId, data_requests,
                   approved_records, auditUp, now, rv, served, ca, mailUp,
                   outbox, trace, users, passwordChanged, ua>>
    /\ UNCHANGED patients
    /\ IF hasRecord
       THEN /\ UNCHANGED <<vault, audit_logs, shown>>
            /\ Respond("admin_createRecord", 500)
       ELSE /\ vault' = [vault EXCEPT !["description"] = written(description)]
            /\ logAudit(a, "create", "record", id)
            /\ shown' = [op |-> "admin_createRecord",
                         row |-> recordModel_getRecordById(vault')]
            /\ Respond("admin_createRecord", 201)

\* the first hex digit replaced by the next one
garbled(text) ==
    <<HexDigits[((hexValue[text[1]] + 1) % 16) + 1]>> \o Tail(text)

\* the last byte lost
truncated(text) == SubSeq(text, 1, Len(text) - 2)

\* the first character unreadable
smudged(text) == <<"?">> \o Tail(text)

DamageKinds == {"garbled", "truncated", "smudged"}

damaged(text, kind) ==
    CASE kind = "garbled" -> garbled(text)
      [] kind = "truncated" -> truncated(text)
      [] OTHER -> smudged(text)

\* A stored ciphertext is corrupted; one cell at a time.
corrupt(f, kind) ==
    /\ \A g \in Fields : vault[g].by # "damage"
    /\ vault[f].by = "write"
    /\ isLikelyEncrypted(vault[f].stored)
    /\ vault' = [vault EXCEPT ![f] = [stored |-> damaged(vault[f].stored, kind),
                                      plain |-> vault[f].plain,
                                      by |-> "damage"]]
    /\ UNCHANGED <<insurance_allocations, nextAllocId, data_requests,
                   approved_records, auditUp, now, rv, served, ca, mailUp,
                   outbox, trace, users, passwordChanged, ua>>
    /\ UNCHANGED <<patients, audit_logs, res, shown>>

\* admin controller: getPatientById
admin_getPatientById(id) ==
    /\ UNCHANGED <<insurance_allocations, nextAllocId, data_requests,
                   approved_records, auditUp, now, rv, served, ca, mailUp,
                   outbox, trace, users, passwordChanged, ua>>
    /\ UNCHANGED <<patients, vault, audit_logs>>
    /\ IF id \notin patients
       THEN /\ UNCHANGED shown
            /\ Respond("admin_getPatientById", 404)
       ELSE /\ shown' = [op |-> "admin_getPatientById",
                         row |-> patientModel_getPatientById(vault)]
            /\ Respond("admin_getPatientById", 200)

\* doctor controller: getPatientHistory answers the patient and the
\* patient's records
doctor_getPatientHistory(d, id) ==
    /\ UNCHANGED <<insurance_allocations, nextAllocId, data_requests,
                   approved_records, auditUp, now, rv, served, ca, mailUp,
                   outbox, trace, users, passwordChanged, ua>>
    /\ UNCHANGED <<patients, vault>>
    /\ IF id \notin patients
       THEN /\ UNCHANGED <<shown, audit_logs>>
            /\ Respond("getPatientHistory", 404)
       ELSE /\ logAudit(d, "view", "patient_history", id)
            /\ shown' = [op |-> "getPatientHistory",
                         row |-> [f \in Fields |->
                            IF f \in PatientFields
                            THEN patientModel_getPatientById(vault)[f]
                            ELSE patientModel_getPatientHistory(vault)[f]]]
            /\ Respond("getPatientHistory", 200)

\* admin controller: getAllRecords
admin_getAllRecords ==
    /\ UNCHANGED <<insurance_allocations, nextAllocId, data_requests,
                   approved_records, auditUp, now, rv, served, ca, mailUp,
                   outbox, trace, users, passwordChanged, ua>>
    /\ UNCHANGED <<patients, vault, audit_logs>>
    /\ shown' = [op |-> "admin_getAllRecords",
                 row |-> IF hasRecord THEN recordModel_getAllRecords(vault)
                         ELSE <<>>]
    /\ Respond("admin_getAllRecords", 200)

\* admin controller: getRecordById
admin_getRecordById(id) ==
    /\ UNCHANGED <<insurance_allocations, nextAllocId, data_requests,
                   approved_records, auditUp, now, rv, served, ca, mailUp,
                   outbox, trace, users, passwordChanged, ua>>
    /\ UNCHANGED <<patients, vault, audit_logs>>
    /\ IF ~hasRecord
       THEN /\ UNCHANGED shown
            /\ Respond("admin_getRecordById", 404)
       ELSE /\ shown' = [op |-> "admin_getRecordById",
                         row |-> recordModel_getRecordById(vault)]
            /\ Respond("admin_getRecordById", 200)

\* The writers and the readers of the sensitive columns of one patient,
\* over a seeded or a created row; audit store down, responses not traced.
InitVault == Start(FALSE, FALSE, FALSE)

NextVault ==
    \/ \E id \in NewPatientIds, row \in PatientInputs : seedPatients(id, row)
    \/ \E a \in OnDuty, id \in NewPatientIds, body \in PatientInputs :
          admin_createPatient(a, id, body)
    \/ \E a \in OnDuty, id \in NewPatientIds, body \in UpdateInputs :
          admin_updatePatient(a, id, body)
    \/ \E role \in Roles, id \in NewPatientIds, body \in UpdateInputs :
          patient_updatePatient(role, id, body)
    \/ \E id \in NewPatientIds : admin_getPatientById(id)

SpecVault == InitVault /\ [][NextVault]_vars

\* One created patient and one created record, a stored ciphertext that is
\* corrupted, and the readers of both; audit store down, responses not
\* traced.
InitRecords == Start(FALSE, FALSE, FALSE)

NextRecords ==
    \/ \E a \in OnDuty, id \in NewPatientIds, body \in PatientInputs :
          admin_createPatient(a, id, body)
    \/ \E a \in OnDuty, id \in NewRecordIds, d \in Descriptions :
          admin_createRecord(a, id, d)
    \/ \E f \in Fields, kind \in DamageKinds : corrupt(f, kind)
    \/ \E id \in NewPatientIds : admin_getPatientById(id)
    \/ \E d \in Doctors, id \in NewPatientIds : doctor_getPatientHistory(d, id)
    \/ admin_getAllRecords
    \/ \E id \in NewRecordIds : admin_getRecordById(id)

SpecRecords == InitRecords /\ [][NextRecords]_vars

\* ----------------------------------------------------------------- routers
\* the claims of a verified token: login signs the role of its body, one of
\* admin, doctor and insurance, with the id of the account
NoToken == [valid |-> FALSE, role |-> "none", id |-> "none"]

Tokens ==
    {NoToken}
       \cup {[valid |-> TRUE, role |-> "admin", id |-> a] : a \in OnDuty}
       \cup {[valid |-> TRUE, role |-> "doctor", id |-> d] : d \in Doctors}
       \cup {[valid |-> TRUE, role |-> "insurance", id |-> c] : c \in Companies}

\* the characters of a role
roleText ==
    [admin |-> <<"a", "d", "m", "i", "n">>,
     doctor |-> <<"d", "o", "c", "t", "o", "r">>,
     insurance |-> <<"i", "n", "s", "u", "r", "a", "n", "c", "e">>]

\* String.prototype.includes
includes(text, part) ==
    \E i \in 1..(Len(text) - Len(part) + 1) :
       SubSeq(text, i, i + Len(part) - 1) = part

\* the arguments the routers pass to checkRole
RouterRoles ==
    [adminRoutes |-> <<"admin">>,
     doctorRoutes |-> <<"doctor", "admin">>,
     insuranceRoutes |-> <<"insurance", "admin">>]

\* checkRole with a rest parameter: every argument is an allowed role.
checkRole_rest(args, role) == \E i \in 1..Len(args) : args[i] = role

\* checkRole: allowedRoles is its first argument, a string when the routers
\* call it, and allowedRoles.includes(req.user.role) asks whether the role
\* occurs in it
checkRole(args, role) == includes(roleText[args[1]], roleText[role])

\* router.use(authenticate); router.use(checkRole(...)): the status the
\* two answer with, 0 when both call next()
guard(router, token) ==
    IF ~token.valid THEN 401
    ELSE IF ~checkRole(RouterRoles[router], token.role) THEN 403
    ELSE 0

\* next(new AppError(..., 401 or 403)) before any handler
refuse(router, token) ==
    /\ guard(router, token) # 0
    /\ Respond(router, guard(router, token))
    /\ UNCHANGED <<insurance_allocations, nextAllocId, data_requests,
                   approved_records, audit_logs, auditUp, now, rv, served, ca,
                   patients, mailUp, outbox, trace, vault, shown,
                   users, passwordChanged, ua>>

\* doctor controller: getPatientRecords
doctor_getPatientRecords(d, id) ==
    /\ UNCHANGED <<insurance_allocations, nextAllocId, data_requests,
                   approved_records, auditUp, now, rv, served, ca, patients,
                   mailUp, outbox, trace, vault, shown,
                   users, passwordChanged, ua>>
    /\ IF id \notin Patients \cup patients
       THEN /\ UNCHANGED audit_logs
            /\ Respond("getPatientRecords", 404)
       ELSE /\ logAudit(d, "view", "patient_records", id)
            /\ Respond("getPatientRecords", 200)

\* a request to a route of the admin router
adminRoutes(token) ==
    \/ refuse("adminRoutes", token)
    \/ /\ guard("adminRoutes", token) = 0
       /\ \E id \in AllocIds, s \in StatusInputs, n \in NoteInputs :
             updateInsuranceAllocationStatus(token.id, id, s, n)

\* a request to a route of the doctor router
doctorRoutes(token) ==
    \/ refuse("doctorRoutes", token)
    \/ /\ guard("doctorRoutes", token) = 0
       /\ \E id \in Patients \cup NewPatientIds :
             doctor_getPatientRecords(token.id, id)

\* a request to a route of the insurance router
insuranceRoutes(token) ==
    \/ refuse("insuranceRoutes", token)
    \/ /\ guard("insuranceRoutes", token) = 0
       /\ \/ \E p \in Patients, id \in ReqIds :
                insurance_createDataRequest(token.id, p, id)
          \/ \E id \in ReqIds : getDataRequestById(token.id, id)

\* Requests with and without tokens to the three routers; audit store up,
\* responses traced.
InitRoutes == Start(TRUE, FALSE, TRUE)

NextRoutes ==
    \/ \E token \in Tokens : adminRoutes(token)
    \/ \E token \in Tokens : doctorRoutes(token)
    \/ \E token \in Tokens : insuranceRoutes(token)

SpecRoutes == InitRoutes /\ [][NextRoutes]_vars

\* --------------------------------------------------------------- accounts
\* ids createStaff may generate
StaffIds == {"ST1", "ST2"}

StaffRoles == {"admin", "doctor"}

\* passwords the code generates and passwords a person chooses
Passwords == {"k3x9q2ab", "Chosen#1"}

\* the role field of a login body
LoginRoles == {"admin", "doctor", "insurance", "nurse"}

bcrypt_hash(password) == <<"bcrypt", password>>

bcrypt_compare(password, hashed) == hashed = bcrypt_hash(password)

\* staffModel.createStaff: one row in users, whose first_login is left to
\* its default, and one row in staff.
staffModel_createStaff(id, role, password) ==
    Put(users, id, [password |-> bcrypt_hash(password), role |-> role,
                    first_login |-> TRUE])

\* staffModel.updateStaff(id, { password })
staffModel_updateStaff(id, password) ==
    [users EXCEPT ![id].password = bcrypt_hash(password)]

\* POST /admin/staff: the id is taken and the INSERT fails, or the account
\* is created with a generated password that is mailed to its owner.
admin_createStaff(a, id, role, password) ==
    /\ UNCHANGED <<insurance_allocations, nextAllocId, data_requests,
                   approved_records, auditUp, now, rv, served, ca, patients,
                   mailUp, trace, vault, shown, ua>>
    /\ IF id \in DOMAIN users
       THEN /\ UNCHANGED <<users, passwordChanged, audit_logs, outbox>>
            /\ Respond("createStaff", 500)
       ELSE /\ users' = staffModel_createStaff(id, role, password)
            /\ passwordChanged' = passwordChanged \ {id}
            /\ logAudit(a, "create", "staff", id)
            /\ sendEmail("New account", id)
            /\ Respond("createStaff", 201)

\* POST /auth/login with the e-mail address of the account id.
login(id, password, role) ==
    /\ UNCHANGED <<insurance_allocations, nextAllocId, data_requests,
                   approved_records, audit_logs, auditUp, now, rv, served, ca,
                   patients, mailUp, outbox, trace, vault, users,
                   passwordChanged, ua>>
    /\ IF role \notin {"admin", "doctor", "insurance"}
       THEN UNCHANGED shown /\ Respond("login", 400)
       ELSE IF role = "insurance" \/ id \notin DOMAIN users
       THEN UNCHANGED shown /\ Respond("login", 401)
       ELSE IF ~bcrypt_compare(password, users[id].password)
       THEN UNCHANGED shown /\ Respond("login", 401)
       ELSE /\ shown' = [op |-> "login",
                         row |-> [id |-> id, role |-> role,
                                  requiresPasswordChange |->
                                      users[id].first_login]]
            /\ Respond("login", 200)

\* changePassword that leaves first_login as it is
changePassword_flagKept(id, role, currentPassword, newPassword) ==
    /\ UNCHANGED <<insurance_allocations, nextAllocId, data_requests,
                   approved_records, audit_logs, auditUp, now, rv, served, ca,
                   patients, mailUp, outbox, trace, vault, shown, ua>>
    /\ IF id \notin DOMAIN users
       THEN UNCHANGED <<users, passwordChanged>> /\ Respond("changePassword", 404)
       ELSE IF ~bcrypt_compare(currentPassword, users[id].password)
       THEN UNCHANGED <<users, passwordChanged>> /\ Respond("changePassword", 401)
       ELSE /\ users' = staffModel_updateStaff(id, newPassword)
            /\ passwordChanged' = passwordChanged \cup {id}
            /\ Respond("changePassword", 200)

\* POST /auth/change-password with the token of a login as admin or doctor.
changePassword(id, role, currentPassword, newPassword) ==
    /\ UNCHANGED <<insurance_allocations, nextAllocId, data_requests,
                   approved_records, audit_logs, auditUp, now, rv, served, ca,
                   patients, mailUp, outbox, trace, vault, shown, ua>>
    /\ IF id \notin DOMAIN users
       THEN UNCHANGED <<users, passwordChanged>> /\ Respond("changePassword", 404)
       ELSE IF ~bcrypt_compare(currentPassword, users[id].password)
       THEN UNCHANGED <<users, passwordChanged>> /\ Respond("changePassword", 401)
       ELSE /\ users' = [staffModel_updateStaff(id, newPassword)
                            EXCEPT ![id].first_login = FALSE]
            /\ passwordChanged' = passwordChanged \cup {id}
            /\ Respond("changePassword", 200)

\* PUT /admin/staff/:id/reset-password
resetStaffPassword(a, id, password) ==
    /\ UNCHANGED <<insurance_allocations, nextAllocId, data_requests,
                   approved_records, auditUp, now, rv, served, ca, patients,
                   mailUp, trace, vault, shown, passwordChanged, ua>>
    /\ IF id \notin DOMAIN users
       THEN UNCHANGED <<users, audit_logs, outbox>>
            /\ Respond("resetStaffPassword", 404)
       ELSE /\ users' = staffModel_updateStaff(id, password)
            /\ sendEmail("New account", id)
            /\ logAudit(a, "reset_password", "staff", id)
            /\ Respond("resetStaffPassword", 200)

InitLogin == Start(TRUE, FALSE, TRUE)

NextLogin ==
    \/ \E a \in OnDuty, id \in StaffIds, role \in StaffRoles :
           admin_createStaff(a, id, role, "k3x9q2ab")
    \/ \E id \in StaffIds, password \in Passwords, role \in LoginRoles :
           login(id, password, role)
    \/ \E id \in StaffIds, role \in StaffRoles, p, q \in Passwords :
           changePassword(id, role, p, q)
    \/ \E a \in OnDuty, id \in StaffIds, password \in Passwords :
           resetStaffPassword(a, id, password)

SpecLogin == InitLogin /\ [][NextLogin]_vars

\* ----------------------------------------------------------- audit trail
\* insurance allocation model: updateAllocationStatus, first statement: the
\* SELECT of the current row, called by the admin controller's
\* updateInsuranceAllocationStatus.  An unknown id makes the model throw an
\* Error, which errorHandler answers with 500.
updateAllocationStatus_select(a, id, status, notes) ==
    /\ ua[a].pc = "idle"
    /\ UNCHANGED <<insurance_allocations, nextAllocId, data_requests,
                   approved_records, audit_logs, auditUp, now, rv, served, ca,
                   patients, mailUp, outbox, trace, vault, shown, users,
                   passwordChanged>>
    /\ IF id \notin DOMAIN insurance_allocations
       THEN /\ UNCHANGED ua
            /\ Respond("updateInsuranceAllocationStatus", 500)
       ELSE /\ ua' = [ua EXCEPT ![a] = [pc |-> "update", id |-> id,
                        status |-> parseStatus(status),
                        notes |-> OrElse(notes, insurance_allocations[id].notes)]]
            /\ UNCHANGED res

\* updateAllocationStatus from its UPDATE on, and the rest of the handler:
\* the UPDATE changes the row with this id if there is one, the row is read
\* again, the decision is audited and the handler answers 200.
updateAllocationStatus_update(a) ==
    /\ ua[a].pc = "update"
    /\ UNCHANGED <<nextAllocId, data_requests, approved_records, auditUp, now,
                   rv, served, ca, patients, mailUp, outbox, trace, vault,
                   shown, users, passwordChanged>>
    /\ insurance_allocations' =
          IF ua[a].id \in DOMAIN insurance_allocations
          THEN [insurance_allocations EXCEPT
                   ![ua[a].id].status = ua[a].status,
                   ![ua[a].id].notes = ua[a].notes]
          ELSE insurance_allocations
    /\ logAudit(a, "update_status", "insurance_allocation", ua[a].id)
    /\ Respond("updateInsuranceAllocationStatus", 200)
    /\ ua' = [ua EXCEPT ![a] = IdleUpdate]

\* The administrator's and the insurer's mutations, statement by statement
\* where a handler reads before it writes, audit store up, responses not
\* traced.
InitTrail == Start(TRUE, FALSE, FALSE)

NextTrail ==
    \/ \E a \in OnDuty, c \in Companies, p \in Patients, n \in NoteInputs :
          createInsuranceAllocation(a, c, p, n)
    \/ \E a \in OnDuty : createAllocation_insert(a)
    \/ \E a \in OnDuty, id \in AllocIds, s \in StatusInputs, n \in NoteInputs :
          updateAllocationStatus_select(a, id, s, n)
    \/ \E a \in OnDuty : updateAllocationStatus_update(a)
    \/ \E a \in OnDuty, id \in AllocIds : deleteInsuranceAllocation(a, id)
    \/ \E c \in Companies, p \in Patients, id \in ReqIds :
          insurance_createDataRequest(c, p, id)
    \/ \E a \in OnDuty, id \in ReqIds, n \in NoteInputs : approveDataRequest(a, id, n)
    \/ \E a \in OnDuty, id \in ReqIds, n \in NoteInputs : rejectDataRequest(a, id, n)
    \/ \E a \in OnDuty : updateDataRequestStatus_write(a)

SpecTrail == InitTrail /\ [][NextTrail]_vars

\* The administrator's proposals and the insurers' decisions, audit store
\* up, mail transport going up and down, responses traced.
InitConnection == Start(TRUE, TRUE, TRUE)

NextConnection ==
    \/ mailOutage
    \/ \E a \in OnDuty, c \in Companies, p \in Patients, n \in NoteInputs :
          createInsuranceAllocation(a, c, p, n)
    \/ \E a \in OnDuty : createAllocation_insert(a)
    \/ \E c \in Companies, id \in AllocIds, s \in StatusInputs, n \in NoteInputs :
          updateConnectionStatus(c, id, s, n)

SpecConnection == InitConnection /\ [][NextConnection]_vars
\* ------------------------------------------------------------- properties
\* A grant is expired once NOW() has reached its access_granted_until.
Expired(g) == \E t \in g.access_granted_until : now >= t

\* C1: no grant is read successfully more often than its max_access_count.
C1_QuotaBoundsReads ==
    \A k \in DOMAIN served :
        <<k[2], k[3]>> \in DOMAIN approved_records =>
            served[k] <= approved_records[<<k[2], k[3]>>].max_access_count

\* C2: of the reviews that read the request as pending, only one applies its
\* update: a review that saw pending completes only while the stored status
\* is still pending.
C2_OneReviewOfPending ==
    [][\A a \in Admins :
          (rv[a].pc = "update" /\ rv'[a].pc = "idle" /\ rv[a].request = "pending")
             => data_requests[rv[a].id].status = 0]_vars

\* C3: a request whose stored status is not pending keeps its status,
\* response notes and response date, whatever review is attempted on it.
C3_NonPendingReviewChangesNothing ==
    [][\A r \in DOMAIN data_requests :
          (data_requests[r].status # 0 /\ r \in DOMAIN data_requests')
             => data_requests'[r] = data_requests[r]]_vars

\* C4: a request's status moves only pending -> approved, pending -> rejected
\* or approved -> fulfilled (3).
C4_MonotonicStatus ==
    [][\A r \in DOMAIN data_requests \cap DOMAIN data_requests' :
          LET s == data_requests[r].status
              t == data_requests'[r].status
          IN  \/ s = t
              \/ s = 0 /\ t \in {1, 2}
              \/ s = 1 /\ t = 3]_vars

\* C5: a request is created only while an approved allocation of its
\* company and patient exists, and it is created pending.
C5_SubmitNeedsApprovedAllocation ==
    [][\A r \in DOMAIN data_requests' \ DOMAIN data_requests :
          /\ connection(data_requests'[r].patient_id, data_requests'[r].company_id) # {}
          /\ data_requests'[r].status = 0]_vars

\* C6: a record is returned to a company only from a request of that
\* company that is approved and has a grant for the record; no company is
\* ever served a record of another company's request.
C6_ReadOnlyOwnApprovedGranted ==
    /\ [](\A k \in DOMAIN served :
            served[k] > 0 => /\ k[2] \in DOMAIN data_requests
                             /\ data_requests[k[2]].company_id = k[1])
    /\ [][\A k \in DOMAIN served :
            served'[k] # served[k] =>
               /\ k[2] \in DOMAIN data_requests
               /\ data_requests[k[2]].company_id = k[1]
               /\ data_requests[k[2]].status = 1
               /\ <<k[2], k[3]>> \in DOMAIN approved_records]_vars

\* A record has been returned to a company.
C6_Witness == \E k \in DOMAIN served : served[k] = 1

\* C7: no record is returned under a grant whose access_granted_until has
\* passed.
C7_ExpiredGrantDenied ==
    [][\A k \in DOMAIN served :
          (served'[k] # served[k] /\ <<k[2], k[3]>> \in DOMAIN approved_records)
             => ~Expired(approved_records[<<k[2], k[3]>>])]_vars

\* C8: the request that owns a grant is approved.
C8_GrantOnlyOfApprovedRequest ==
    \A g \in DOMAIN approved_records :
        /\ g[1] \in DOMAIN data_requests
        /\ data_requests[g[1]].status = 1

\* C9: access_count never exceeds max_access_count.
C9_AccessCountWithinMax ==
    \A g \in DOMAIN approved_records :
        approved_records[g].access_count <= approved_records[g].max_access_count

\* A grant has been read more often than its max_access_count.
C9_Witness ==
    \E k \in DOMAIN served :
        /\ <<k[2], k[3]>> \in DOMAIN approved_records
        /\ served[k] > approved_records[<<k[2], k[3]>>].max_access_count

\* C10: an allocation that is not pending keeps its status, whichever
\* decision is attempted on it.
C10_DecideOnlyPending ==
    [][\A i \in DOMAIN insurance_allocations \cap DOMAIN insurance_allocations' :
          insurance_allocations[i].status # 0
             => insurance_allocations'[i].status = insurance_allocations[i].status]_vars

\* C11: at most one allocation is stored for a company, a patient and a
\* policy number (every row's policy number is NULL: the INSERT names none),
\* whatever the sequence or interleaving of proposals.
C11_OneAllocationPerTuple ==
    \A i, j \in DOMAIN insurance_allocations :
        (/\ insurance_allocations[i].company_id = insurance_allocations[j].company_id
         /\ insurance_allocations[i].patient_id = insurance_allocations[j].patient_id)
            => i = j

C13_MailFailureKeepsTransition ==
    [][~mailUp =>
          /\ \A a \in Admins :
                (ca[a].pc = "insert" /\ ca'[a].pc = "idle") =>
                   /\ nextAllocId \in DOMAIN insurance_allocations'
                   /\ insurance_allocations'[nextAllocId].company_id = ca[a].company_id
                   /\ insurance_allocations'[nextAllocId].status = 0
                   /\ res'.op = "createInsuranceAllocation"
                   /\ res'.code = 201
          /\ \A a \in Admins :
                (rv[a].pc = "update" /\ rv'[a].pc = "idle") =>
                   /\ rv[a].id \in DOMAIN data_requests =>
                         data_requests'[rv[a].id].status = rv[a].status
                   /\ res'.op = reviewOp(rv[a].status)
                   /\ res'.code = 200]_vars

\* A review was answered 200 and no mail was ever delivered: the mails of
\* the submission and of the review both failed.
C13_Witness ==
    /\ outbox = 0
    /\ res.op \in {"approveDataRequest", "rejectDataRequest"}
    /\ res.code = 200
    /\ \E r \in DOMAIN data_requests : data_requests[r].status # 0

\* C14: the audit log is append-only: every step leaves the events already
\* stored in place, unchanged, and at most adds events after them.
C14_AuditAppendOnly ==
    [][/\ Len(audit_logs') >= Len(audit_logs)
       /\ SubSeq(audit_logs', 1, Len(audit_logs)) = audit_logs]_vars

\* Two events are stored, the second appended after the first.
C14_Witness == Len(audit_logs) >= 2

\* C15: the audit log holds at most one review event (approve or reject)
\* for a request.
C15_OneReviewEventPerRequest ==
    \A r \in ReqIds :
        Cardinality({i \in 1..Len(audit_logs) :
                        /\ audit_logs[i].resource_type = "data_request"
                        /\ audit_logs[i].resource_id = r
                        /\ audit_logs[i].action \in {"approve", "reject"}}) <= 1

\* C16: a read by a company that has no approved allocation, denied while
\* the audit store accepts events, appends an access-denied event to the
\* audit log.
C16_DeniedReadIsAudited ==
    [][\A c \in Companies, r \in ReqIds :
          (/\ getApprovedRecords(c, r) \/ getDataRequestById(c, r)
           /\ \A p \in Patients : connection(p, c) = {}
           /\ res'.code # 200
           /\ auditUp
           /\ Len(audit_logs) < MaxAudit)
             => /\ Len(audit_logs') = Len(audit_logs) + 1
                /\ audit_logs'[Len(audit_logs')].action = "access_denied"]_vars

\* C17: a rejection without notes is answered 400 and leaves the request,
\* the audit log, the mails and the review in flight as they are, so no
\* rejected request is stored without notes; an approval is taken up and
\* completes with 200 with or without notes.
C17_RejectNeedsNotes ==
    /\ [](\A r \in DOMAIN data_requests :
             data_requests[r].status = 2 => data_requests[r].response_notes # NULL)
    /\ [][\A a \in Admins, id \in ReqIds :
             /\ (rejectDataRequest(a, id, "") \/ dataRequest_rejectDataRequest(a, id, ""))
                   => /\ res'.op = "rejectDataRequest"
                      /\ res'.code = 400
                      /\ UNCHANGED <<data_requests, audit_logs, outbox, rv>>
             /\ \A n \in NoteInputs :
                   (approveDataRequest(a, id, n) /\ id \in DOMAIN data_requests)
                      => rv'[a] = [pc |-> "update", id |-> id, status |-> 1,
                                   notes |-> n,
                                   request |-> formatStatus(data_requests[id].status)]
             /\ (rv[a].pc = "update" /\ rv[a].status = 1 /\ rv'[a].pc = "idle"
                    /\ rv[a].id \in DOMAIN data_requests)
                   => /\ data_requests'[rv[a].id].status = 1
                      /\ data_requests'[rv[a].id].response_notes = OrNull(rv[a].notes)
                      /\ res'.op = "approveDataRequest"
                      /\ res'.code = 200]_vars

\* A request approved without notes is stored, and a rejection without
\* notes has just been refused while the audit store and the mail
\* transport were up.
C17_Witness ==
    /\ res.op = "rejectDataRequest"
    /\ res.code = 400
    /\ auditUp
    /\ mailUp
    /\ \E r \in DOMAIN data_requests :
          data_requests[r].status = 1 /\ data_requests[r].response_notes = NULL

\* C18: a review of an unknown request id and a decision on an unknown
\* allocation id are answered with the not-found error (404), change no
\* row and write no audit event.
C18_UnknownIdIsNotFound ==
    [][\A a \in Admins, n \in NoteInputs :
          /\ \A id \in ReqIds :
                (approveDataRequest(a, id, n) /\ id \notin DOMAIN data_requests)
                   => /\ res'.code = 404
                      /\ UNCHANGED <<data_requests, insurance_allocations, audit_logs>>
          /\ \A id \in AllocIds, s \in StatusInputs :
                (/\ updateInsuranceAllocationStatus(a, id, s, n)
                 /\ id \notin DOMAIN insurance_allocations)
                   => /\ res'.code = 404
                      /\ UNCHANGED <<data_requests, insurance_allocations, audit_logs>>]_vars

\* C19: while a company has no approved allocation, its submissions and
\* its reads are denied: none is answered with success.  (The claim asks
\* for more: the same 403 in every such case.)
C19_NoAllocationNoAccess ==
    [][\A c \in Companies, r \in ReqIds :
          (/\ \A p \in Patients : connection(p, c) = {}
           /\ \/ getApprovedRecords(c, r)
              \/ \E p \in Patients : insurance_createDataRequest(c, p, r))
             => res'.code \notin {200, 201}]_vars

\* C20: no allocation is deleted while a request of its company and
\* patient is stored.
C20_NoDeleteWhileRequested ==
    [][\A i \in DOMAIN insurance_allocations \ DOMAIN insurance_allocations' :
          ~ \E r \in DOMAIN data_requests :
               /\ data_requests[r].company_id = insurance_allocations[i].company_id
               /\ data_requests[r].patient_id = insurance_allocations[i].patient_id]_vars

\* C21: a submission that passes the allocation check is given an id no
\* stored request has, is stored and is answered 201.
C21_FreshRequestId ==
    [][\A c \in Companies, p \in Patients :
          (/\ insurance_createDataRequest(c, p, requestIdAt(now))
           /\ connection(p, c) # {})
             => /\ requestIdAt(now) \notin DOMAIN data_requests
                /\ requestIdAt(now) \in DOMAIN data_requests'
                /\ res'.code = 201]_vars

\* C22: round trip: every non-empty value a writer of the system has put
\* through encrypt comes back from decrypt as the text that was written.
C22_RoundTrip ==
    \A f \in Fields :
       (/\ vault[f].by = "write"
        /\ vault[f].plain # <<>>
        /\ vault[f].stored = encrypt(vault[f].plain))
          => decrypt(vault[f].stored) = vault[f].plain

\* A text longer than a block was written, is stored as two blocks of
\* ciphertext and was shown to the reader as it was written.
C22_Witness ==
    \E f \in Fields :
       /\ vault[f].by = "write"
       /\ Len(vault[f].plain) > BlockSize
       /\ vault[f].stored = encrypt(vault[f].plain)
       /\ Len(vault[f].stored) = 4 * BlockSize
       /\ f \in DOMAIN shown.row
       /\ shown.row[f] = vault[f].plain

\* C23: a legacy plaintext that isLikelyEncrypted does not take for
\* ciphertext is returned by decrypt as it is, and getPatientById shows
\* it as it is stored.
C23_LegacyPlaintextIsReturned ==
    [][\A id \in NewPatientIds, f \in PatientFields :
          (/\ admin_getPatientById(id)
           /\ id \in patients
           /\ vault[f].by = "seed"
           /\ ~isLikelyEncrypted(vault[f].stored))
             => /\ decrypt(vault[f].stored) = vault[f].stored
                /\ shown'.row[f] = vault[f].stored]_vars

\* C24: every read of a corrupted ciphertext shows the one sentinel
\* "[unavailable]", whichever handler reads it.
C24_CorruptReadsUnavailable ==
    [][\A f \in Fields :
          (/\ shown' # shown
           /\ f \in DOMAIN shown'.row
           /\ vault'[f].by = "damage")
             => shown'.row[f] = <<"[", "u", "n", "a", "v", "a", "i", "l", "a", "b", "l", "e", "]">>]_vars

\* C25: every non-empty sensitive cell written by a create or an update
\* of the system holds the ciphertext encrypt gives for the text that was
\* written, never that text.
C25_SensitiveCellsAreCiphertext ==
    \A f \in Fields :
       (vault[f].by = "write" /\ vault[f].stored # <<>>)
          => /\ vault[f].stored = encrypt(vault[f].plain)
             /\ vault[f].stored # vault[f].plain

\* C26: a request to a route of the admin, doctor or insurance router
\* reaches a handler only with a valid token of that role; without a valid
\* token it is answered 401 and with another role 403, and nothing is
\* written.
C26_RoutersAdmitTheirRole ==
    [][\A token \in Tokens :
          /\ \A router \in DOMAIN RouterRoles :
                refuse(router, token) =>
                   /\ ~token.valid \/ token.role # RouterRoles[router][1]
                   /\ res'.code = IF token.valid THEN 403 ELSE 401
          /\ (~token.valid \/ token.role # "admin") =>
                (adminRoutes(token) => refuse("adminRoutes", token))
          /\ (~token.valid \/ token.role # "doctor") =>
                (doctorRoutes(token) => refuse("doctorRoutes", token))
          /\ (~token.valid \/ token.role # "insurance") =>
                (insuranceRoutes(token) => refuse("insuranceRoutes", token))]_vars

\* The insurance router has refused a token of another role with 403 after
\* an insurer stored a request through it.
C26_Witness ==
    /\ res.op = "insuranceRoutes"
    /\ res.code = 403
    /\ data_requests # <<>>

\* C27: every successful login of an admin or doctor account reports
\* requiresPasswordChange = true as long as no changePassword of that account
\* has succeeded since the account was created, and false afterwards.
C27_FirstLoginFlag ==
    [][\A id \in StaffIds :
          (res' # res /\ res'.op = "login" /\ res'.code = 200
             /\ shown'.row.id = id)
          => shown'.row.requiresPasswordChange = (id \notin passwordChanged)]_vars

\* A login after a password change and a later reset by an administrator
\* reports false.
C27_Witness ==
    /\ res.op = "login" /\ res.code = 200
    /\ shown.op = "login"
    /\ shown.row.id \in passwordChanged
    /\ users[shown.row.id].password = bcrypt_hash("k3x9q2ab")
    /\ Len(audit_logs) = 2 /\ audit_logs[2].action = "reset_password"
    /\ shown.row.requiresPasswordChange = FALSE

\* C28: whenever a company reads the approved records of a request with
\* success, an approved allocation between the company and the request's
\* patient exists at that moment.
C28_ReadNeedsApprovedAllocation ==
    [][\A c \in Companies, r \in ReqIds :
          (getApprovedRecords(c, r) /\ res'.code = 200)
             => connection(data_requests[r].patient_id, c) # {}]_vars

\* C29: an approve, reject, create or update_status event enters the audit
\* trail only in a step that has applied the state change it names: the
\* created request or allocation is new in the store, the reviewed request
\* carries the decision, the decided allocation is in the store.
C29_AuditOnlyAfterMutation ==
    [][Len(audit_logs') > Len(audit_logs) =>
          LET e == audit_logs'[Len(audit_logs')] IN
          /\ (e.action = "create" /\ e.resource_type = "data_request")
                => e.resource_id \in DOMAIN data_requests' \ DOMAIN data_requests
          /\ (e.action = "create" /\ e.resource_type = "insurance_allocation")
                => e.resource_id \in
                      DOMAIN insurance_allocations' \ DOMAIN insurance_allocations
          /\ e.action = "approve"
                => /\ e.resource_id \in DOMAIN data_requests'
                   /\ data_requests'[e.resource_id].status = 1
          /\ e.action = "reject"
                => /\ e.resource_id \in DOMAIN data_requests'
                   /\ data_requests'[e.resource_id].status = 2
          /\ e.action = "update_status"
                => e.resource_id \in DOMAIN insurance_allocations']_vars

\* C30: an insurer's updateConnectionStatus on an allocation of another
\* company is answered 404 and leaves the allocations, the audit trail and
\* the mail as they were; whatever row an insurer's call changes belongs to
\* that insurer.
C30_ForeignAllocationUntouched ==
    [][(res' # res /\ res'.op = "updateConnectionStatus") =>
       \A c \in Companies, id \in AllocIds :
          (\E s \in StatusInputs, n \in NoteInputs :
              updateConnectionStatus(c, id, s, n)) =>
             /\ (id \in DOMAIN insurance_allocations
                   /\ insurance_allocations[id].company_id # c)
                => /\ res'.code = 404
                   /\ insurance_allocations' = insurance_allocations
                   /\ audit_logs' = audit_logs
                   /\ outbox' = outbox
             /\ \A i \in DOMAIN insurance_allocations :
                   insurance_allocations'[i] # insurance_allocations[i]
                      => insurance_allocations[i].company_id = c]_vars

\* Every allocation id is stored, so the call answered 404 named an
\* allocation of another company; audit store and mail had room.
C30_Witness ==
    /\ res.op = "updateConnectionStatus" /\ res.code = 404
    /\ DOMAIN insurance_allocations = AllocIds
    /\ \E i, j \in AllocIds :
          insurance_allocations[i].company_id # insurance_allocations[j].company_id
    /\ Len(audit_logs) < MaxAudit
    /\ outbox < MaxMail
    /\ auditUp /\ mailUp
====
